---- MODULE Spec2Model ----
(***************************************************************************)
(* Model of the IP / interconnect configuration generator (src/main.py).   *)
(*                                                                         *)
(* One run of the program is a behaviour: the workbook is the input, fixed *)
(* in the initial state; read_excel loads the two sheets, resolves the     *)
(* canonical identifiers (_identify_masters_slaves), propagates the        *)
(* interconnect properties (_apply_interconnect_properties), and           *)
(* generate_config_file renders the report.                                *)
(*                                                                         *)
(* Names are strings, modelled as sequences of character codes so that     *)
(* Python's sorted() (codepoint-lexicographic order) is computed, not      *)
(* assumed.  A numeric cell is either an integer or a text; int() of a     *)
(* text raises.                                                            *)
(***************************************************************************)
EXTENDS Integers, Sequences, FiniteSets, TLC

VARIABLES
    workbook,              \* the spreadsheet found by find_excel_file (input)
    pc,                    \* position of __main__ in the pipeline
    ip_configs,            \* ConfigGenerator.ip_configs: canonical id -> IPConfig
    original_ip_map,       \* ConfigGenerator.original_ip_map: original name -> id
    interconnect_configs,  \* ConfigGenerator.interconnect_configs (ordered dict)
    master_count,          \* ConfigGenerator.master_count
    slave_count,           \* ConfigGenerator.slave_count
    log,                   \* [WARNING] lines printed so far
    config_file            \* content of config.txt written by this run

vars == <<workbook, pc, ip_configs, original_ip_map, interconnect_configs,
          master_count, slave_count, log, config_file>>

----------------------------------------------------------------------------
(* Bounds of the explored inputs *)

\* size of a workbook: its data rows plus the names its interconnect rows list
MaxSize == 5

----------------------------------------------------------------------------
(* Strings *)

\* "ab" and "b": the shorter name sorts after the longer one
NameAB == <<1, 2>>
NameB == <<2>>
Names == {NameAB, NameB}

\* an empty cell in the name column (the row is skipped)
NoName == <<>>

\* Python str comparison: first differing code point, a proper prefix is smaller
RECURSIVE LexLess(_, _)
LexLess(s, t) ==
    IF t = <<>> THEN FALSE
    ELSE IF s = <<>> THEN TRUE
    ELSE IF Head(s) # Head(t) THEN Head(s) < Head(t)
    ELSE LexLess(Tail(s), Tail(t))

\* a plausible slip: shorter strings first, then by first code point
LengthFirstLess(s, t) ==
    \/ Len(s) < Len(t)
    \/ Len(s) = Len(t) /\ LexLess(s, t)

\* the order sorted() uses on names
NameLess(s, t) == LexLess(s, t)

\* sorted(S): the elements of the set S in ascending order
RECURSIVE SortedSeq(_)
SortedSeq(S) ==
    IF S = {} THEN <<>>
    ELSE LET m == CHOOSE x \in S : \A y \in S \ {x} : NameLess(x, y)
         IN <<m>> \o SortedSeq(S \ {m})

Range(s) == {s[i] : i \in 1..Len(s)}

----------------------------------------------------------------------------
(* Cells and rows of the workbook *)

\* a numeric cell as openpyxl returns it: a number, or a text that is no number
IntCell(n) == [kind |-> "int", val |-> n]
TextCell == [kind |-> "text", val |-> 0]

\* int(cell) returns normally
Parses(cell) == cell.kind = "int"
\* the value int(cell) returns
IntOf(cell) == cell.val

\* columns the interconnect sheet is searched for (header_row.index)
RequiredColumns == {"interconnect name", "set of masters", "set of slaves"}

\* an empty interconnect-name cell
NoIcName == ""
IcNames == {"busX", "busY"}

\* columns 1..4 of the plain IP row
PlainIpValues ==
    [read_write |-> "R", bit_width |-> IntCell(32), frequency |-> IntCell(100),
     clk_domain |-> "clkA"]

\* other values of columns 1..4 of an IP row; the last has a text frequency
OtherIpValues ==
    { [read_write |-> "W", bit_width |-> IntCell(64), frequency |-> IntCell(200),
       clk_domain |-> "clkB"],
      [read_write |-> "W", bit_width |-> IntCell(64), frequency |-> TextCell,
       clk_domain |-> "clkB"] }

\* columns 1..4 of the plain interconnect row
PlainIcValues ==
    [bit_width |-> IntCell(128), frequency |-> IntCell(400), protocol |-> "AXI",
     clk_domain |-> "clkX"]

\* other values of columns 1..4 of an interconnect row; the last has a text
\* bit width
OtherIcValues ==
    { [bit_width |-> IntCell(256), frequency |-> IntCell(800), protocol |-> "AHB",
       clk_domain |-> "clkY"],
      [bit_width |-> TextCell, frequency |-> IntCell(800), protocol |-> "AHB",
       clk_domain |-> "clkY"] }

IpRow(n, v) ==
    [name |-> n, read_write |-> v.read_write, bit_width |-> v.bit_width,
     frequency |-> v.frequency, clk_domain |-> v.clk_domain]

IcRow(n, v, ms, ss) ==
    [name |-> n, bit_width |-> v.bit_width, frequency |-> v.frequency,
     protocol |-> v.protocol, clk_domain |-> v.clk_domain,
     masters |-> ms, slaves |-> ss]

(* The size of a workbook counts its data rows, the names its interconnect  *)
(* rows list, the rows that depart from the plain row (other values, or an  *)
(* empty name cell) and, twice, the required columns its header lacks.      *)

\* IP rows of size w
IpRowsOfSize(w) ==
    IF w = 1 THEN {IpRow(n, PlainIpValues) : n \in Names}
    ELSE IF w = 2 THEN {IpRow(n, v) : n \in Names, v \in OtherIpValues}
                         \cup {IpRow(NoName, PlainIpValues)}
    ELSE {}

\* IP sheets of size n
RECURSIVE IpSheets(_)
IpSheets(n) ==
    IF n = 0 THEN {<<>>}
    ELSE UNION { {<<r>> \o t : r \in IpRowsOfSize(w), t \in IpSheets(n - w)} :
                 w \in 1..n }

\* the lists of k names
Lists(k) == [1..k -> Names]

\* the pairs of a master list and a slave list that list k names in all
ListPairs(k) ==
    UNION { {[masters |-> ms, slaves |-> ss] : ms \in Lists(i), ss \in Lists(k - i)} :
            i \in 0..k }

\* interconnect rows of size w
IcRowsOfSize(w) ==
    {IcRow(n, PlainIcValues, l.masters, l.slaves) :
        n \in IcNames, l \in ListPairs(w - 1)}
    \cup (IF w < 2 THEN {}
          ELSE {IcRow(n, v, l.masters, l.slaves) :
                    n \in IcNames, v \in OtherIcValues, l \in ListPairs(w - 2)}
               \cup {IcRow(NoIcName, PlainIcValues, l.masters, l.slaves) :
                        l \in ListPairs(w - 2)})

\* interconnect sheets of size n
RECURSIVE IcSheets(_)
IcSheets(n) ==
    IF n = 0 THEN {<<>>}
    ELSE UNION { {<<r>> \o t : r \in IcRowsOfSize(w), t \in IcSheets(n - w)} :
                 w \in 1..n }

\* the pairs <<i, c>> of sizes that add up to at most n
SizePairs(n) == {p \in (0..n) \X (0..n) : p[1] + p[2] <= n}

\* the IP sheets and the interconnect sheets of each size up to MaxSize
IpSheetsOfSize == [n \in 0..MaxSize |-> IpSheets(n)]
IcSheetsOfSize == [n \in 0..MaxSize |-> IcSheets(n)]

\* no spreadsheet in the script directory
NoWorkbook ==
    [found |-> FALSE, ip_sheet |-> <<>>, has_sheet2 |-> FALSE,
     header_row |-> {}, ic_sheet |-> <<>>]

\* wb is a workbook of size at most MaxSize: no file at all, a file with a
\* single sheet, or a file with two sheets
IsWorkbook(wb) ==
    \/ wb = NoWorkbook
    \/ \E i \in 0..MaxSize : \E ips \in IpSheetsOfSize[i] :
          wb = [found |-> TRUE, ip_sheet |-> ips, has_sheet2 |-> FALSE,
                header_row |-> {}, ic_sheet |-> <<>>]
    \/ \E h \in SUBSET RequiredColumns :
          \E p \in SizePairs(MaxSize - 2 * Cardinality(RequiredColumns \ h)) :
             \E ips \in IpSheetsOfSize[p[1]], ics \in IcSheetsOfSize[p[2]] :
                wb = [found |-> TRUE, ip_sheet |-> ips, has_sheet2 |-> TRUE,
                      header_row |-> h, ic_sheet |-> ics]

----------------------------------------------------------------------------
(* Records of the configuration model *)

\* InterconnectConfig(...) built from a data row; int() of the cells has succeeded
InterconnectConfig(row) ==
    [name |-> row.name, bit_width |-> IntOf(row.bit_width),
     frequency |-> IntOf(row.frequency), protocol |-> row.protocol,
     clk_domain |-> row.clk_domain, master_ips |-> row.masters,
     slave_ips |-> row.slaves]

\* IPConfig(original_name, role, '-', 0, 0, '-') with the dataclass defaults
IPConfig(name, role) ==
    [original_name |-> name, role |-> role, read_write |-> "-",
     original_bit_width |-> 0, original_frequency |-> 0,
     original_clk_domain |-> "-", final_bit_width |-> 0, final_frequency |-> 0,
     final_protocol |-> "-", final_clk_domain |-> "-",
     connected_interconnect |-> "-"]

\* f"M{n}" / f"S{n}"
CanonId(letter, n) == [letter |-> letter, num |-> n]

\* d[k] = v on a dict modelled as a function
Put(f, k, v) == [x \in DOMAIN f \cup {k} |-> IF x = k THEN v ELSE f[x]]

EmptyDict == [x \in {} |-> x]

\* interconnect_configs[rec.name] = rec on an insertion-ordered dict: a key that
\* is already present keeps its position and takes the new value
DictPut(d, rec) ==
    IF \E i \in 1..Len(d) : d[i].name = rec.name
    THEN [i \in 1..Len(d) |-> IF d[i].name = rec.name THEN rec ELSE d[i]]
    ELSE Append(d, rec)

\* what becomes of the run when an exception leaves read_excel: the except
\* clause re-raises and __main__ reports the error and ends
ExceptionSwallowed == "applied"
ExceptionTarget == "error"

----------------------------------------------------------------------------
(* read_excel: loading the two sheets *)

\* the temporary mapping built from the IP sheet
TemporaryMapping(rows) ==
    [n \in {rows[i].name : i \in 1..Len(rows)} \ {NoName} |-> n]

\* the loop over the interconnect sheet's data rows, from the dict d
RECURSIVE LoadInterconnects(_, _)
LoadInterconnects(rows, d) ==
    IF rows = <<>> THEN [configs |-> d, raised |-> FALSE]
    ELSE LET row == Head(rows)
         IN IF row.name = NoIcName THEN LoadInterconnects(Tail(rows), d)
            ELSE IF ~Parses(row.bit_width) \/ ~Parses(row.frequency)
                 THEN [configs |-> d, raised |-> TRUE]
                 ELSE LoadInterconnects(Tail(rows), DictPut(d, InterconnectConfig(row)))

\* find_excel_file finds no spreadsheet
FindExcelFileFail ==
    /\ pc = "start"
    /\ ~workbook.found
    /\ pc' = ExceptionTarget
    /\ UNCHANGED <<workbook, ip_configs, original_ip_map, interconnect_configs,
                   master_count, slave_count, log, config_file>>

\* the header of the second sheet lacks a required column
HeaderFail ==
    /\ pc = "start"
    /\ workbook.found
    /\ workbook.has_sheet2
    /\ ~(RequiredColumns \subseteq workbook.header_row)
    /\ original_ip_map' = TemporaryMapping(workbook.ip_sheet)
    /\ pc' = ExceptionTarget
    /\ UNCHANGED <<workbook, ip_configs, interconnect_configs,
                   master_count, slave_count, log, config_file>>

\* both sheets are read, up to the call of _identify_masters_slaves
LoadSheets ==
    /\ pc = "start"
    /\ workbook.found
    /\ workbook.has_sheet2 => RequiredColumns \subseteq workbook.header_row
    /\ original_ip_map' = TemporaryMapping(workbook.ip_sheet)
    /\ LET r == IF workbook.has_sheet2
                THEN LoadInterconnects(workbook.ic_sheet, interconnect_configs)
                ELSE [configs |-> interconnect_configs, raised |-> FALSE]
       IN /\ interconnect_configs' = r.configs
          /\ pc' = IF r.raised THEN ExceptionTarget ELSE "loaded"
    /\ UNCHANGED <<workbook, ip_configs, master_count, slave_count, log,
                   config_file>>

----------------------------------------------------------------------------
(* _identify_masters_slaves *)

\* all_masters: the names of every master_ips list
AllMasters(d) == UNION {Range(d[i].master_ips) : i \in 1..Len(d)}
\* all_slaves: the names of every slave_ips list
AllSlaves(d) == UNION {Range(d[i].slave_ips) : i \in 1..Len(d)}

\* the counter steps by two, leaving gaps (a slip)
SkipCount(c) == c + 2
\* self.master_count += 1 / self.slave_count += 1
NextCount(c) == c + 1

\* one of the two numbering loops: the names in order get the identifiers
\* letter1, letter2, ... ; each gets a fresh IPConfig and a map entry
RECURSIVE AssignIds(_, _, _, _, _, _)
AssignIds(names, letter, role, count, map, cfgs) ==
    IF names = <<>> THEN [count |-> count, map |-> map, cfgs |-> cfgs]
    ELSE LET c == NextCount(count)
             ip_name == CanonId(letter, c)
         IN AssignIds(Tail(names), letter, role, c,
                      Put(map, Head(names), ip_name),
                      Put(cfgs, ip_name, IPConfig(Head(names), role)))

\* the second pass over the IP sheet: the rows whose name is in the map fill in
\* the record the name maps to; int() of a text cell raises in mid-update
RECURSIVE FillDetails(_, _, _)
FillDetails(rows, map, cfgs) ==
    IF rows = <<>> THEN [cfgs |-> cfgs, raised |-> FALSE]
    ELSE LET row == Head(rows)
         IN IF row.name = NoName \/ row.name \notin DOMAIN map
            THEN FillDetails(Tail(rows), map, cfgs)
            ELSE LET ip_name == map[row.name]
                     c1 == [cfgs[ip_name] EXCEPT !.read_write = row.read_write]
                     c2 == [c1 EXCEPT !.original_bit_width = IntOf(row.bit_width)]
                     c3 == [c2 EXCEPT !.original_frequency = IntOf(row.frequency),
                                      !.original_clk_domain = row.clk_domain]
                     c4 == [c3 EXCEPT !.final_bit_width = c3.original_bit_width,
                                      !.final_frequency = c3.original_frequency,
                                      !.final_clk_domain = c3.original_clk_domain]
                 IN IF ~Parses(row.bit_width)
                    THEN [cfgs |-> Put(cfgs, ip_name, c1), raised |-> TRUE]
                    ELSE IF ~Parses(row.frequency)
                         THEN [cfgs |-> Put(cfgs, ip_name, c2), raised |-> TRUE]
                         ELSE FillDetails(Tail(rows), map, Put(cfgs, ip_name, c4))

\* the [WARNING] line for names listed as both master and slave
ConflictWarning(names) == [kind |-> "conflict", names |-> names]

\* the two numbering loops: the masters in sorted order, then the slaves in
\* sorted order, from the records cfgs; the map starts empty
ResolveIds(d, cfgs) ==
    LET m == AssignIds(SortedSeq(AllMasters(d)), "M", "master", 0, EmptyDict, cfgs)
        s == AssignIds(SortedSeq(AllSlaves(d)), "S", "slave", 0, m.map, m.cfgs)
    IN [master_count |-> m.count, slave_count |-> s.count,
        map |-> s.map, cfgs |-> s.cfgs]

IdentifyMastersSlaves ==
    /\ pc = "loaded"
    /\ LET conflict_ips == AllMasters(interconnect_configs)
                              \cap AllSlaves(interconnect_configs)
           r == ResolveIds(interconnect_configs, ip_configs)
           f == FillDetails(workbook.ip_sheet, r.map, r.cfgs)
       IN /\ log' = IF conflict_ips # {}
                    THEN log \cup {ConflictWarning(conflict_ips)} ELSE log
          /\ master_count' = r.master_count
          /\ slave_count' = r.slave_count
          /\ original_ip_map' = r.map
          /\ ip_configs' = f.cfgs
          /\ pc' = IF f.raised THEN ExceptionTarget ELSE "identified"
    /\ UNCHANGED <<workbook, interconnect_configs, config_file>>

----------------------------------------------------------------------------
(* _apply_interconnect_properties *)

\* first writer wins: an IP that is already connected is left alone (a slip)
ApplyIfUnset(cfg, ic) ==
    IF cfg.connected_interconnect # "-" THEN cfg
    ELSE [cfg EXCEPT !.connected_interconnect = ic.name,
                     !.final_bit_width = ic.bit_width,
                     !.final_frequency = ic.frequency,
                     !.final_protocol = ic.protocol,
                     !.final_clk_domain = ic.clk_domain]

\* the write also lands on the baseline attribute (a slip)
ApplyAlsoBaseline(cfg, ic) ==
    [cfg EXCEPT !.connected_interconnect = ic.name,
                !.final_bit_width = ic.bit_width,
                !.original_bit_width = ic.bit_width,
                !.final_frequency = ic.frequency,
                !.final_protocol = ic.protocol,
                !.final_clk_domain = ic.clk_domain]

\* the protocol is not propagated (a slip)
ApplyNoProtocol(cfg, ic) ==
    [cfg EXCEPT !.connected_interconnect = ic.name,
                !.final_bit_width = ic.bit_width,
                !.final_frequency = ic.frequency,
                !.final_clk_domain = ic.clk_domain]

\* the five assignments on the record of a listed IP
ApplyWrite(cfg, ic) ==
    [cfg EXCEPT !.connected_interconnect = ic.name,
                !.final_bit_width = ic.bit_width,
                !.final_frequency = ic.frequency,
                !.final_protocol = ic.protocol,
                !.final_clk_domain = ic.clk_domain]

\* the [WARNING] line for a listed name that is not in the map
DanglingWarning(kind, name) == [kind |-> kind, names |-> {name}]

\* one of the two inner loops, over a master_ips or slave_ips list
RECURSIVE ApplyList(_, _, _, _, _, _)
ApplyList(names, ic, kind, map, cfgs, lg) ==
    IF names = <<>> THEN [cfgs |-> cfgs, log |-> lg]
    ELSE LET original_ip == Head(names)
         IN IF original_ip \in DOMAIN map
            THEN ApplyList(Tail(names), ic, kind, map,
                           Put(cfgs, map[original_ip],
                               ApplyWrite(cfgs[map[original_ip]], ic)), lg)
            ELSE ApplyList(Tail(names), ic, kind, map, cfgs,
                           lg \cup {DanglingWarning(kind, original_ip)})

\* the outer loop, over interconnect_configs.items() in dict order
RECURSIVE ApplyAll(_, _, _, _)
ApplyAll(d, map, cfgs, lg) ==
    IF d = <<>> THEN [cfgs |-> cfgs, log |-> lg]
    ELSE LET ic == Head(d)
             m == ApplyList(ic.master_ips, ic, "dangling_master", map, cfgs, lg)
             s == ApplyList(ic.slave_ips, ic, "dangling_slave", map, m.cfgs, m.log)
         IN ApplyAll(Tail(d), map, s.cfgs, s.log)

ApplyInterconnectProperties ==
    /\ pc = "identified"
    /\ LET r == ApplyAll(interconnect_configs, original_ip_map, ip_configs, log)
       IN /\ ip_configs' = r.cfgs
          /\ log' = r.log
    /\ pc' = "applied"
    /\ UNCHANGED <<workbook, original_ip_map, interconnect_configs,
                   master_count, slave_count, config_file>>

----------------------------------------------------------------------------
(* generate_config_file *)

\* str(n) as character codes
RECURSIVE Digits(_)
Digits(n) == IF n < 10 THEN <<48 + n>> ELSE Digits(n \div 10) \o <<48 + (n % 10)>>

\* the key of ip_configs as the string it is: "M" is 77, "S" is 83
IdString(id) == <<IF id.letter = "M" THEN 77 ELSE 83>> \o Digits(id.num)

\* sorted(self.ip_configs.items()): the keys in string order
RECURSIVE SortedIds(_)
SortedIds(S) ==
    IF S = {} THEN <<>>
    ELSE LET m == CHOOSE x \in S :
                    \A y \in S \ {x} : LexLess(IdString(x), IdString(y))
         IN <<m>> \o SortedIds(S \ {m})

\* one line of the report
ReportRow(ip_name, config) ==
    [ip_name |-> ip_name,
     type |-> IF config.role = "master" THEN "MASTER" ELSE "SLAVE",
     read_write |-> config.read_write,
     bit_width |-> config.final_bit_width,
     frequency |-> config.final_frequency,
     protocol |-> config.final_protocol,
     clk_domain |-> config.final_clk_domain,
     interconnect |-> config.connected_interconnect,
     original_ip |-> config.original_name]

\* no config.txt has been written by this run
NoOutput == [written |-> FALSE, rows |-> <<>>]

GenerateConfigFile ==
    /\ pc = "applied"
    /\ LET keys == SortedIds(DOMAIN ip_configs)
       IN config_file' =
            [written |-> TRUE,
             rows |-> [i \in 1..Len(keys) |-> ReportRow(keys[i], ip_configs[keys[i]])]]
    /\ pc' = "done"
    /\ UNCHANGED <<workbook, ip_configs, original_ip_map, interconnect_configs,
                   master_count, slave_count, log>>

----------------------------------------------------------------------------
(* The run *)

Init ==
    /\ IsWorkbook(workbook)
    /\ pc = "start"
    /\ ip_configs = EmptyDict
    /\ original_ip_map = EmptyDict
    /\ interconnect_configs = <<>>
    /\ master_count = 0
    /\ slave_count = 0
    /\ log = {}
    /\ config_file = NoOutput

Next ==
    \/ FindExcelFileFail
    \/ HeaderFail
    \/ LoadSheets
    \/ IdentifyMastersSlaves
    \/ ApplyInterconnectProperties
    \/ GenerateConfigFile

Spec == Init /\ [][Next]_vars

----------------------------------------------------------------------------
(* Vocabulary of the properties *)

\* _identify_masters_slaves has returned
Identified == pc \in {"identified", "applied", "done"}
\* _apply_interconnect_properties has returned
Applied == pc \in {"applied", "done"}

\* the names the interconnect records list as masters, as slaves
MasterSet == AllMasters(interconnect_configs)
SlaveSet == AllSlaves(interconnect_configs)

\* the names that have a row in the IP table
DeclaredNames ==
    {workbook.ip_sheet[i].name : i \in 1..Len(workbook.ip_sheet)} \ {NoName}

\* the IP-table row that holds the baseline of the name n: the last one
BaselineRow(n) ==
    LET last == CHOOSE i \in 1..Len(workbook.ip_sheet) :
                    /\ workbook.ip_sheet[i].name = n
                    /\ \A j \in (i + 1)..Len(workbook.ip_sheet) :
                          workbook.ip_sheet[j].name # n
    IN workbook.ip_sheet[last]

\* the canonical identifiers of the records whose original name is n
RecordsOf(n) == {id \in DOMAIN ip_configs : ip_configs[id].original_name = n}

\* the record of interconnect_configs ic lists the name n
RecordLists(ic, n) == n \in Range(ic.master_ips) \cup Range(ic.slave_ips)

\* the row r of the interconnect table is read as an interconnect and lists n
RowLists(r, n) == r.name # NoIcName /\ n \in Range(r.masters) \cup Range(r.slaves)

\* the record cfg carries the values of the interconnect named name
Carries(cfg, name, bit_width, frequency, protocol, clk_domain) ==
    /\ cfg.connected_interconnect = name
    /\ cfg.final_bit_width = bit_width
    /\ cfg.final_frequency = frequency
    /\ cfg.final_protocol = protocol
    /\ cfg.final_clk_domain = clk_domain

\* the 1-based position of n among the names of S in lexicographic order
Rank(n, S) == 1 + Cardinality({m \in S : LexLess(m, n)})

----------------------------------------------------------------------------
(* C1 *)

\* C1: every name that is in a master list and in a slave list has, once the
\* identifiers are resolved, exactly one IP record; that record is a MASTER
\* with an M identifier, and original_ip_map resolves the name to it.
C1_ConflictResolvesToMaster ==
    Identified =>
        \A n \in MasterSet \cap SlaveSet :
            /\ Cardinality(RecordsOf(n)) = 1
            /\ n \in DOMAIN original_ip_map
            /\ \A id \in RecordsOf(n) :
                  /\ ip_configs[id].role = "master"
                  /\ id.letter = "M"
                  /\ original_ip_map[n] = id

----------------------------------------------------------------------------
(* C2 *)

\* C2: when two rows of the interconnect table with different interconnect
\* names list a name, and no row after the second lists it, the record the
\* name resolves to carries, after propagation, the values and the name of
\* the second row.
C2_LastRowWins ==
    Applied =>
        LET rows == workbook.ic_sheet
        IN \A n \in Names : \A i, j \in 1..Len(rows) :
              ( /\ i < j
                /\ rows[i].name # rows[j].name
                /\ RowLists(rows[i], n)
                /\ RowLists(rows[j], n)
                /\ \A k \in (j + 1)..Len(rows) : ~RowLists(rows[k], n) )
              => /\ n \in DOMAIN original_ip_map
                 /\ Carries(ip_configs[original_ip_map[n]], rows[j].name,
                            IntOf(rows[j].bit_width), IntOf(rows[j].frequency),
                            rows[j].protocol, rows[j].clk_domain)

\* C2 (amended): when two records of interconnect_configs list a name, the
\* first before the second in the order of interconnect_configs, and no record
\* after the second lists it, the record the name resolves to carries, after
\* propagation, the values and the name of the second record.
C2_LastRecordWins ==
    Applied =>
        LET d == interconnect_configs
        IN \A n \in Names : \A i, j \in 1..Len(d) :
              ( /\ i < j
                /\ RecordLists(d[i], n)
                /\ RecordLists(d[j], n)
                /\ \A k \in (j + 1)..Len(d) : ~RecordLists(d[k], n) )
              => /\ n \in DOMAIN original_ip_map
                 /\ Carries(ip_configs[original_ip_map[n]], d[j].name,
                            d[j].bit_width, d[j].frequency,
                            d[j].protocol, d[j].clk_domain)

\* a name listed by two records with different values has been propagated to
C2_Witness ==
    /\ pc = "applied"
    /\ Len(interconnect_configs) = 2
    /\ interconnect_configs[1].bit_width # interconnect_configs[2].bit_width
    /\ \E n \in Names :
          /\ RecordLists(interconnect_configs[1], n)
          /\ RecordLists(interconnect_configs[2], n)
          /\ n \in DOMAIN original_ip_map
          /\ ip_configs[original_ip_map[n]].connected_interconnect
                = interconnect_configs[2].name

----------------------------------------------------------------------------
(* C3 *)

\* C3: every IP-table entry that no interconnect lists is in the final model
\* as one record, whose final bit width, frequency and clock domain are the
\* baseline of the IP table and whose protocol and connected interconnect are
\* the unset sentinel.
C3_BaselinePreserved ==
    Applied =>
        \A n \in DeclaredNames \ (MasterSet \cup SlaveSet) :
            /\ Cardinality(RecordsOf(n)) = 1
            /\ \A id \in RecordsOf(n) :
                  /\ ip_configs[id].final_bit_width = IntOf(BaselineRow(n).bit_width)
                  /\ ip_configs[id].final_frequency = IntOf(BaselineRow(n).frequency)
                  /\ ip_configs[id].final_clk_domain = BaselineRow(n).clk_domain
                  /\ ip_configs[id].final_protocol = "-"
                  /\ ip_configs[id].connected_interconnect = "-"

----------------------------------------------------------------------------
(* C4 *)

\* C4: a name that an interconnect lists and that has no row in the IP table
\* has, once the identifiers are resolved, no IP record and no entry in
\* original_ip_map.
C4_UndeclaredNameSkipped ==
    Identified =>
        \A n \in (MasterSet \cup SlaveSet) \ DeclaredNames :
            /\ RecordsOf(n) = {}
            /\ n \notin DOMAIN original_ip_map

----------------------------------------------------------------------------
(* C5 *)

\* C5: for every name that an interconnect lists and that has no row in the IP
\* table, propagation has logged a dangling-reference warning and has written
\* the interconnect's values to no record of that name.
C5_DanglingReferenceWarned ==
    Applied =>
        \A n \in (MasterSet \cup SlaveSet) \ DeclaredNames :
            /\ \/ DanglingWarning("dangling_master", n) \in log
               \/ DanglingWarning("dangling_slave", n) \in log
            /\ \A id \in RecordsOf(n) : ip_configs[id].connected_interconnect = "-"

----------------------------------------------------------------------------
(* C6 *)

\* C6: once the identifiers are resolved, the keys of ip_configs are pairwise
\* distinct strings, the numbers of the master records are exactly
\* 1..master_count and the numbers of the slave records are exactly
\* 1..slave_count, each number used once.
C6_IdsDenseAndUnique ==
    Identified =>
        LET masters == {id \in DOMAIN ip_configs : ip_configs[id].role = "master"}
            slaves == {id \in DOMAIN ip_configs : ip_configs[id].role = "slave"}
        IN /\ \A a, b \in DOMAIN ip_configs : a # b => IdString(a) # IdString(b)
           /\ masters \cup slaves = DOMAIN ip_configs
           /\ \A id \in masters : id.letter = "M"
           /\ \A id \in slaves : id.letter = "S"
           /\ {id.num : id \in masters} = 1..master_count
           /\ Cardinality(masters) = master_count
           /\ {id.num : id \in slaves} = 1..slave_count
           /\ Cardinality(slaves) = slave_count

\* two masters and a slave have been numbered, one name being in both roles
C6_Witness ==
    /\ pc = "identified"
    /\ master_count = 2
    /\ slave_count = 1
    /\ MasterSet \cap SlaveSet # {}

----------------------------------------------------------------------------
(* C7 *)

\* the sequence s with its elements i and i+1 exchanged
SwapAt(s, i) ==
    [k \in 1..Len(s) |-> IF k = i THEN s[i + 1] ELSE IF k = i + 1 THEN s[i] ELSE s[k]]

\* the tables that differ from rows by the exchange of two adjacent rows
RowSwaps(rows) == {SwapAt(rows, i) : i \in 1..(Len(rows) - 1)}

\* the same, the two rows bearing different interconnect names
DistinctRowSwaps(rows) ==
    {SwapAt(rows, i) : i \in {k \in 1..(Len(rows) - 1) : rows[k].name # rows[k + 1].name}}

\* the tables that differ from rows by the exchange of two adjacent names in
\* one list of one row
ListSwaps(rows) ==
    UNION { {[rows EXCEPT ![i].masters = SwapAt(rows[i].masters, k)] :
                k \in 1..(Len(rows[i].masters) - 1)}
            \cup {[rows EXCEPT ![i].slaves = SwapAt(rows[i].slaves, k)] :
                k \in 1..(Len(rows[i].slaves) - 1)} : i \in 1..Len(rows) }

\* the name-to-identifier mapping a run on the interconnect table rows builds
IdMapOf(rows) == ResolveIds(LoadInterconnects(rows, <<>>).configs, EmptyDict).map

\* the i-th smallest name of the master set has the record M<i>, the i-th
\* smallest of the slave set the record S<i>, and the mapping resolves every
\* name to an identifier it received
C7_RankNumbering ==
    /\ \A n \in MasterSet :
          LET id == CanonId("M", Rank(n, MasterSet))
          IN id \in DOMAIN ip_configs /\ ip_configs[id].original_name = n
    /\ \A n \in SlaveSet :
          LET id == CanonId("S", Rank(n, SlaveSet))
          IN id \in DOMAIN ip_configs /\ ip_configs[id].original_name = n
    /\ DOMAIN original_ip_map = MasterSet \cup SlaveSet
    /\ \A n \in DOMAIN original_ip_map :
          \/ n \in MasterSet /\ original_ip_map[n] = CanonId("M", Rank(n, MasterSet))
          \/ n \in SlaveSet /\ original_ip_map[n] = CanonId("S", Rank(n, SlaveSet))

\* C7: the identifiers are the lexicographic ranks within the master set and
\* the slave set, and a run on the same table with two adjacent rows exchanged,
\* or with two adjacent names of a list exchanged, builds the same
\* name-to-identifier mapping.  (Every reordering is a chain of such exchanges,
\* and every table of the chain is an input of the same size.)
C7_OrderIndependentNumbering ==
    Identified =>
        /\ C7_RankNumbering
        /\ \A t \in RowSwaps(workbook.ic_sheet) \cup ListSwaps(workbook.ic_sheet) :
              IdMapOf(t) = original_ip_map

\* C7 (amended): as C7, the exchanged rows bearing different interconnect
\* names (rows of the same interconnect keep their relative order).
C7_OrderIndependentAmongDistinct ==
    Identified =>
        /\ C7_RankNumbering
        /\ \A t \in DistinctRowSwaps(workbook.ic_sheet) \cup ListSwaps(workbook.ic_sheet) :
              IdMapOf(t) = original_ip_map

\* two masters listed in descending order have been numbered, and the table
\* has both a row exchange and a list exchange
C7_Witness ==
    /\ pc = "identified"
    /\ DistinctRowSwaps(workbook.ic_sheet) # {}
    /\ ListSwaps(workbook.ic_sheet) # {}
    /\ \E i \in 1..Len(interconnect_configs) :
          interconnect_configs[i].master_ips = <<NameB, NameAB>>
    /\ original_ip_map[NameAB] = CanonId("M", 1)
    /\ original_ip_map[NameB] = CanonId("M", 2)

----------------------------------------------------------------------------
(* C8 *)

\* the names listed by the interconnects of the table: for each interconnect
\* name, the lists of its last row
ListedByTable ==
    LET rows == workbook.ic_sheet
    IN UNION { Range(rows[i].masters) \cup Range(rows[i].slaves) :
                 i \in {k \in 1..Len(rows) :
                          /\ rows[k].name # NoIcName
                          /\ \A j \in (k + 1)..Len(rows) : rows[j].name # rows[k].name} }

\* loading fails: no spreadsheet, a required column missing, or a text in the
\* bit-width or frequency cell of an interconnect
FatalAtLoad ==
    \/ ~workbook.found
    \/ workbook.has_sheet2 /\ ~(RequiredColumns \subseteq workbook.header_row)
    \/ /\ workbook.has_sheet2
       /\ \E i \in 1..Len(workbook.ic_sheet) :
             /\ workbook.ic_sheet[i].name # NoIcName
             /\ \/ workbook.ic_sheet[i].bit_width.kind # "int"
                \/ workbook.ic_sheet[i].frequency.kind # "int"

\* resolution fails: a text in the bit-width or frequency cell of a listed IP
FatalAtResolution ==
    \E i \in 1..Len(workbook.ip_sheet) :
        /\ workbook.ip_sheet[i].name \in ListedByTable
        /\ \/ workbook.ip_sheet[i].bit_width.kind # "int"
           \/ workbook.ip_sheet[i].frequency.kind # "int"

\* C8: when loading or resolution fails the run goes from the failing step to
\* the error exit, from which generate_config_file cannot be invoked, and no
\* config.txt is written.
C8_FatalStopsBeforeRendering ==
    /\ FatalAtLoad => pc \in {"start", "error"}
    /\ FatalAtResolution => pc \in {"start", "loaded", "error"}
    /\ (FatalAtLoad \/ FatalAtResolution) => config_file = NoOutput
    /\ pc = "error" => config_file = NoOutput /\ ~ENABLED GenerateConfigFile

\* resolution has failed on a listed IP after its identifier was assigned
C8_Witness ==
    /\ pc = "error"
    /\ FatalAtResolution
    /\ ~FatalAtLoad
    /\ DOMAIN ip_configs # {}
    /\ config_file = NoOutput

----------------------------------------------------------------------------
(* C9 *)

\* C9: when no name is in both roles and every listed name has an IP-table
\* row, then after propagation every name of a master list has one record, a
\* MASTER, every name of a slave list has one record, a SLAVE, and each of
\* these records carries the name and the values of an interconnect record
\* that lists the name.
C9_ResolvedAndPropagated ==
    ( /\ Applied
      /\ MasterSet \cap SlaveSet = {}
      /\ MasterSet \cup SlaveSet \subseteq DeclaredNames )
    => \A n \in MasterSet \cup SlaveSet :
          /\ Cardinality(RecordsOf(n)) = 1
          /\ \A id \in RecordsOf(n) :
                /\ ip_configs[id].role = IF n \in MasterSet THEN "master" ELSE "slave"
                /\ id.letter = IF n \in MasterSet THEN "M" ELSE "S"
                /\ ip_configs[id].connected_interconnect # "-"
                /\ \E i \in 1..Len(interconnect_configs) :
                      LET ic == interconnect_configs[i]
                      IN /\ RecordLists(ic, n)
                         /\ Carries(ip_configs[id], ic.name, ic.bit_width,
                                    ic.frequency, ic.protocol, ic.clk_domain)

\* the scenario of the specification: two declared IPs, busX(128, 400, AXI,
\* clkX) with the first as master and the second as slave
C9_Witness ==
    /\ pc = "applied"
    /\ DeclaredNames = {NameAB, NameB}
    /\ interconnect_configs =
          <<[name |-> "busX", bit_width |-> 128, frequency |-> 400,
             protocol |-> "AXI", clk_domain |-> "clkX",
             master_ips |-> <<NameAB>>, slave_ips |-> <<NameB>>]>>
    /\ DOMAIN ip_configs = {CanonId("M", 1), CanonId("S", 1)}
    /\ ip_configs[CanonId("M", 1)].original_name = NameAB
    /\ ip_configs[CanonId("S", 1)].original_name = NameB
    /\ \A id \in DOMAIN ip_configs :
          Carries(ip_configs[id], "busX", 128, 400, "AXI", "clkX")

----------------------------------------------------------------------------
(* C10 *)

\* the fields of an IP record that propagation must leave alone
Baseline(cfg) ==
    <<cfg.original_name, cfg.role, cfg.read_write, cfg.original_bit_width,
      cfg.original_frequency, cfg.original_clk_domain>>

\* C10: the step of _apply_interconnect_properties creates and deletes no IP
\* record, leaves original_name, role, read_write and the three original_*
\* fields of every record as they were, and leaves original_ip_map and
\* interconnect_configs unchanged.
C10_PropagationFrame ==
    [][ (pc = "identified" /\ pc' = "applied") =>
            /\ DOMAIN ip_configs' = DOMAIN ip_configs
            /\ \A id \in DOMAIN ip_configs :
                  Baseline(ip_configs'[id]) = Baseline(ip_configs[id])
            /\ original_ip_map' = original_ip_map
            /\ interconnect_configs' = interconnect_configs
            /\ master_count' = master_count
            /\ slave_count' = slave_count ]_vars

\* propagation has overwritten the final bit width of a record whose baseline
\* bit width came from the IP table
C10_Witness ==
    /\ pc = "applied"
    /\ \E id \in DOMAIN ip_configs :
          /\ ip_configs[id].connected_interconnect # "-"
          /\ ip_configs[id].original_bit_width = 32
          /\ ip_configs[id].final_bit_width = 128

====
